---- MODULE Spec2Model ----
(***************************************************************************)
(* zet-map: the update loop (feed fetch, timestamp check, enrichment from  *)
(* the trip metadata cache, heading smoothing, publish), the trip metadata *)
(* cache with its staleness probe and refresh, and the server-sent-events  *)
(* subscribers that poll the published timestamp and snapshot.             *)
(* The model follows the current program, src/main.go lines 214-632.       *)
(***************************************************************************)
EXTENDS Integers, Sequences, FiniteSets, TLC

(***************************************************************************)
(* Bounds of the model.                                                    *)
(***************************************************************************)
\* largest header timestamp a feed carries
MaxTs == 2

(***************************************************************************)
(* Program constants.                                                      *)
(***************************************************************************)
\* threshold := float64(3), degrees
BearingThreshold == 3
\* moveThreshold := 1e-5, squared, in coordinate units of 2^-18 degrees: the
\* square is 6.87..., and a squared distance is a whole number of units
MoveThresholdSq == 7

(***************************************************************************)
(* Data: identifiers, feeds, archive versions.                             *)
(***************************************************************************)
Subscribers == {"s1"}

\* a float32 coordinate: units * 2^-18 degrees + tiny * 1e-30 degrees. A
\* float32 holds units * 2^-18 exactly, and the other part when units is 0.
Deg(u) == [units |-> u, tiny |-> 0]

\* the latitude -1e-30 degrees
TinySouth == [units |-> 0, tiny |-> -1]

\* a feed entity: a vehicle position, or another kind (trip update, alert)
Veh(id, r, t, lat, lon) ==
    [isVehicle |-> TRUE, id |-> id, route |-> r, trip |-> t,
     lat |-> Deg(lat), lon |-> Deg(lon)]

Other ==
    [isVehicle |-> FALSE, id |-> "", route |-> "", trip |-> "",
     lat |-> Deg(0), lon |-> Deg(0)]

\* the entity lists the feed server hands out
EntityLists ==
    { <<Veh("v1", "r1", "t1", 0, 0)>>,
      <<Veh("v1", "r1", "t1", 2, 2), Other, Veh("v2", "r2", "t2", 1, 1)>> }

\* positions for the heading smoother, <<latitude, longitude>>: an origin; a
\* point less than 1e-5 degrees from it; points 1e-5 degrees or more from
\* it, to the west, a little west of north (two of them), and to the east
\* with a latitude 1e-30 degrees south of the origin's
SamplePositions ==
    { <<Deg(0), Deg(0)>>, <<Deg(2), Deg(1)>>, <<Deg(0), Deg(-3)>>,
      <<Deg(20), Deg(-1)>>, <<Deg(15), Deg(-1)>>, <<TinySouth, Deg(3)>> }

\* where a second vehicle is reported
SecondPositions == { <<Deg(0), Deg(0)>>, <<Deg(0), Deg(-3)>> }

\* a vehicle-position entity at a position of SamplePositions
VehAt(id, r, t, p) == [Veh(id, r, t, 0, 0) EXCEPT !.lat = p[1], !.lon = p[2]]

\* entity lists for the heading smoother: one vehicle; two vehicles on one
\* route; two vehicles on two routes; two entities with the same vehicle ID
\* on one route
SampleEntityLists ==
    { <<VehAt("v1", "r1", "t1", p)>> : p \in SamplePositions }
        \cup { <<VehAt("v1", "r1", "t1", p), VehAt("v2", "r1", "t1", q)>> :
                   p \in SamplePositions, q \in SecondPositions }
        \cup { <<VehAt("v2", "r2", "t2", q), VehAt("v1", "r1", "t1", p)>> :
                   p \in SamplePositions, q \in SecondPositions }
        \cup { <<VehAt("v1", "r1", "t1", p), VehAt("v1", "r1", "t1", q)>> :
                   p \in SamplePositions, q \in SecondPositions }

\* gtfs.FeedMessage: the header timestamp (POSIX time) is optional, a nil
\* pointer when absent
Feeds ==
    { [hasTs |-> TRUE, ts |-> t, entity |-> e] : t \in 1..MaxTs, e \in EntityLists }
        \cup { [hasTs |-> FALSE, ts |-> 0, entity |-> e] : e \in EntityLists }

\* feeds for the heading smoother; without a header timestamp a feed is
\* taken in every cycle
SampleFeeds == { [hasTs |-> FALSE, ts |-> 0, entity |-> e] : e \in SampleEntityLists }

\* headings a vehicle of the stored snapshot has when the smoother is looked at
SampleHeadings == {0, 90}

\* the versions of the schedule archive the archive server publishes, in order:
\* the Content-Disposition header it sends and the rows of trips.txt after the
\* header row (route, trip, headsign, direction flag)
Archives ==
    << [disposition |-> "attachment; filename=zet-gtfs-scheduled-1.zip",
        rows |-> << <<"r1", "t1", "Borongaj", "0">> >>],
       [disposition |-> "attachment; filename=zet-gtfs-scheduled-2.zip",
        rows |-> << <<"r1", "t1", "Borongaj", "0">>, <<"r2", "t2", "Dubec", "1">> >>] >>

\* strings.HasPrefix(contentDisposition, "attachment; filename=zet-gtfs-scheduled")
DispositionsWithPrefix == { Archives[i].disposition : i \in DOMAIN Archives }

HasAttachmentPrefix(d) == d \in DispositionsWithPrefix

NoTrip == [Headsign |-> "", Direction |-> ""]

NoRoutes == << >>

VARIABLES
    \* ---- stored state
    lastUpdateTimestamp,    \* uint64, atomic
    allVehicles,            \* atomic.Value: the route map stored, 0 before the first Store
    heap,                   \* the route maps allocated, by reference
    routesToTrips,          \* the trip metadata cache
    cachedTripsFilename,    \* its version token
    muWriter,               \* mu is write-locked
    \* ---- the archive server
    archiveVer,
    \* ---- main and the update loop goroutine
    pc, serving, vehicles, gi, newRoutes,
    \* ---- the subscribers (sseHandler)
    spc, clientLastUpdate, svehicles, ctxDone,
    \* ---- history
    builtFrom,              \* per route map: the header timestamp of its feed
    storedValue,            \* per route map: its contents when it was stored
    probes, refreshes,      \* answers to the HEAD and GET requests of this cycle
    lastFetch,              \* how the last fetch went, and the header it brought
    sentTs,                 \* per subscriber: the timestamps of its events
    holdsCurrent,           \* per subscriber: its last event is the map now stored
    tsSeen,                 \* per subscriber: the timestamps stored while connected
    sentAfterDone           \* per subscriber: events written after its context was done

stored == <<lastUpdateTimestamp, allVehicles, heap>>
cache == <<routesToTrips, cachedTripsFilename, muWriter>>
loop == <<pc, serving, vehicles, gi, newRoutes>>
subs == <<spc, clientLastUpdate, svehicles, ctxDone>>
hist == <<builtFrom, storedValue, probes, refreshes, lastFetch>>
shist == <<sentTs, holdsCurrent, tsSeen, sentAfterDone>>
vars == <<stored, cache, archiveVer, loop, subs, hist, shist>>

(***************************************************************************)
(* The trip metadata cache.                                                *)
(***************************************************************************)
\* a read lock that is granted while the write lock is held
RLockUnchecked(writerHeld) == TRUE

\* mu.RLock() in getTrip returns only while no writer holds mu
RLockAvailable(writerHeld) == ~writerHeld

\* getTrip: the lookup under the read lock
getTrip(routes, route_id, trip_id) ==
    IF <<route_id, trip_id>> \in DOMAIN routes
    THEN [trip |-> routes[<<route_id, trip_id>>], exists |-> TRUE]
    ELSE [trip |-> NoTrip, exists |-> FALSE]

\* the loop that fills the cleared cache from the parsed rows: a later row of
\* the same (route, trip) overwrites an earlier one
LoadRows(rows) ==
    [k \in { <<rows[i][1], rows[i][2]>> : i \in DOMAIN rows } |->
        LET last == CHOOSE i \in DOMAIN rows :
                        /\ <<rows[i][1], rows[i][2]>> = k
                        /\ \A j \in DOMAIN rows : <<rows[j][1], rows[j][2]>> = k => j <= i
        IN [Headsign |-> rows[last][3], Direction |-> rows[last][4]]]

\* what a HEAD request to the archive can answer
HeadResponses(archive) ==
    { [err |-> TRUE, disposition |-> ""],
      [err |-> FALSE, disposition |-> ""],
      [err |-> FALSE, disposition |-> archive.disposition] }

\* what a GET request to the archive can answer: a transport or read error
\* or a body that is no zip archive, an archive without trips.txt, an archive
\* whose trips.txt is no well-formed CSV, the archive
GetOutcomes == {"error", "notrips", "malformed", "ok"}

\* a check that does not compare with the recorded token
isTripsDataStaleAnyAttachment(head, cachedFilename) ==
    ~head.err /\ HasAttachmentPrefix(head.disposition)

\* a check that takes a failed probe for a changed archive
isTripsDataStaleOnError(head, cachedFilename) ==
    IF head.err
    THEN TRUE
    ELSE HasAttachmentPrefix(head.disposition) /\ head.disposition # cachedFilename

\* isTripsDataStale, given the answer to its HEAD request
isTripsDataStale(head, cachedFilename) ==
    IF head.err
    THEN FALSE
    ELSE LET isAttachment == HasAttachmentPrefix(head.disposition)
             matchesCachedValue == head.disposition = cachedFilename
         IN isAttachment /\ ~matchesCachedValue

\* a download that does not record the archive's version token
fetchTripsDataKeepsToken(outcome, ver, cachedFilename) ==
    IF outcome \in {"ok", "malformed"}
    THEN [data |-> ver, csvOk |-> outcome = "ok", err |-> FALSE, filename |-> cachedFilename]
    ELSE [data |-> 0, csvOk |-> FALSE, err |-> TRUE, filename |-> cachedFilename]

\* fetchTripsData: the bytes of trips.txt (here the archive version they come
\* from, 0 for nil) and the version token, set only when trips.txt was unzipped
fetchTripsData(outcome, ver, cachedFilename) ==
    IF outcome \in {"ok", "malformed"}
    THEN [data |-> ver, csvOk |-> outcome = "ok", err |-> FALSE,
          filename |-> Archives[ver].disposition]
    ELSE [data |-> 0, csvOk |-> FALSE, err |-> TRUE, filename |-> cachedFilename]

\* a getTripsData that returns the error of fetchTripsData to its caller
getTripsDataReturnsFetchError(outcome, ver, cachedFilename) ==
    LET fetched == fetchTripsData(outcome, ver, cachedFilename)
    IN IF fetched.err
       THEN [rows |-> << >>, err |-> TRUE, filename |-> fetched.filename]
       ELSE IF fetched.csvOk
            THEN [rows |-> Archives[fetched.data].rows, err |-> FALSE,
                  filename |-> fetched.filename]
            ELSE [rows |-> << >>, err |-> TRUE, filename |-> fetched.filename]

\* getTripsData: the error of fetchTripsData is logged and dropped; the CSV
\* reader over nil bytes meets end of file, and ReadAll then returns no rows
\* and no error; a malformed file makes ReadAll return no rows and an error
getTripsData(outcome, ver, cachedFilename) ==
    LET fetched == fetchTripsData(outcome, ver, cachedFilename)
    IN IF fetched.data = 0
       THEN [rows |-> << >>, err |-> FALSE, filename |-> fetched.filename]
       ELSE IF fetched.csvOk
            THEN [rows |-> Archives[fetched.data].rows, err |-> FALSE,
                  filename |-> fetched.filename]
            ELSE [rows |-> << >>, err |-> TRUE, filename |-> fetched.filename]

\* the condition under which getRoutes takes the write lock and reloads the
\* cache from the rows getTripsData returned
ReloadsCache(err) == err

(***************************************************************************)
(* Feed to route map.                                                      *)
(***************************************************************************)
\* getVehiclesData: the vehicle-position entities, in feed order
getVehiclesData(f) == SelectSeq(f.entity, LAMBDA e : e.isVehicle)

\* routes[routeID] = Vehicles{} when the key is new
EnsureRoute(routes, r) ==
    IF r \in DOMAIN routes
    THEN routes
    ELSE [k \in DOMAIN routes \cup {r} |-> IF k = r THEN << >> ELSE routes[k]]

\* a vehicle put in front of the vehicles its route already has
AddVehicleInFront(routes, v, trip) ==
    LET withRoute == EnsureRoute(routes, v.route)
    IN [withRoute EXCEPT ![v.route] =
            <<[ID |-> v.id, Latitude |-> v.lat, Longitude |-> v.lon,
               Headsign |-> trip.Headsign, Direction |-> 0]>> \o @]

\* routes[routeID] = append(routes[routeID], Vehicle{...}); Direction is left 0
AddVehicle(routes, v, trip) ==
    LET withRoute == EnsureRoute(routes, v.route)
    IN [withRoute EXCEPT ![v.route] =
            Append(@, [ID |-> v.id, Latitude |-> v.lat, Longitude |-> v.lon,
                       Headsign |-> trip.Headsign, Direction |-> 0])]

(***************************************************************************)
(* The heading smoother.                                                   *)
(***************************************************************************)
\* int(math.Atan2(dy, dx) * 180 / math.Pi), shifted by 360 when negative, for
\* the displacements of the coordinate grid
BearingTable ==
    << <<225, 243, 270, 296, 315>>,
       <<206, 225, 270, 315, 333>>,
       <<180, 180,   0,   0,   0>>,
       <<153, 135,  90,  45,  26>>,
       <<135, 116,  90,  63,  45>> >>

\* the same for the displacements <<dx, dy>> off that grid that occur
\* between the positions of SamplePositions
OffGridBearing(dx, dy) ==
    CASE dx = -4 /\ dy = -2 -> 206
      [] dx = -4 /\ dy = 15 -> 104
      [] dx = -4 /\ dy = 20 -> 101
      [] dx = -3 /\ dy = 0 -> 180
      [] dx = -2 /\ dy = -20 -> 264
      [] dx = -2 /\ dy = -15 -> 262
      [] dx = -2 /\ dy = 13 -> 98
      [] dx = -2 /\ dy = 18 -> 96
      [] dx = -1 /\ dy = 15 -> 93
      [] dx = -1 /\ dy = 20 -> 92
      [] dx = 0 /\ dy = -5 -> 270
      [] dx = 0 /\ dy = 5 -> 90
      [] dx = 1 /\ dy = -20 -> 272
      [] dx = 1 /\ dy = -15 -> 273
      [] dx = 2 /\ dy = -18 -> 276
      [] dx = 2 /\ dy = -13 -> 278
      [] dx = 2 /\ dy = 15 -> 82
      [] dx = 2 /\ dy = 20 -> 84
      [] dx = 3 /\ dy = 0 -> 0
      [] dx = 4 /\ dy = -20 -> 281
      [] dx = 4 /\ dy = -15 -> 284
      [] dx = 4 /\ dy = 2 -> 26

\* the same for a displacement east or west with a latitude change of a few
\* 1e-30 degrees. East and south, the angle is negative and above -1e-23,
\* and angle + 360 is 360 in float64; east and north, the angle is below
\* 1e-23 and truncates to 0; west, the angle is 180 or -180
TinyBearing(dx, dy) ==
    CASE dx.units > 0 /\ dy.tiny < 0 -> 360
      [] dx.units > 0 /\ dy.tiny > 0 -> 0
      [] dx.units < 0 -> 180

\* p2 - p1 on one axis, in float64: a part in 1e-30 degrees vanishes next to
\* a part in 2^-18 degrees
Diff(c2, c1) ==
    IF c2.units # c1.units
    THEN [units |-> c2.units - c1.units, tiny |-> 0]
    ELSE [units |-> 0, tiny |-> c2.tiny - c1.tiny]

\* calculateBearing(p1, p2), truncated to int as at its call
calculateBearing(p1, p2) ==
    LET dx == Diff(p2.Lon, p1.Lon)
        dy == Diff(p2.Lat, p1.Lat)
    IN IF dx.tiny # 0 \/ dy.tiny # 0
       THEN TinyBearing(dx, dy)
       ELSE IF dx.units \in -2..2 /\ dy.units \in -2..2
            THEN BearingTable[dy.units + 3][dx.units + 3]
            ELSE OffGridBearing(dx.units, dy.units)

\* a distance taken in half units and compared with the threshold in units
calculateDistanceSqHalfUnits(p1, p2) ==
    LET dx == Diff(p2.Lon, p1.Lon)
        dy == Diff(p2.Lat, p1.Lat)
    IN 4 * (dx.units * dx.units + dy.units * dy.units)

\* calculateDistance(p1, p2), squared, in units of 2^-18 degrees: the square
\* of a part in 1e-30 degrees vanishes
calculateDistanceSq(p1, p2) ==
    LET dx == Diff(p2.Lon, p1.Lon)
        dy == Diff(p2.Lat, p1.Lat)
    IN dx.units * dx.units + dy.units * dy.units

\* the difference with its sign
SignedDifference(x) == x

\* math.Abs
Abs(x) == IF x < 0 THEN -x ELSE x

\* a search that takes the first vehicle of the route, whatever its ID
IndexOfFirst(vs, id) == IF vs = << >> THEN 0 ELSE 1

\* a search that falls back on the first vehicle of the route
IndexOfIDOrFirst(vs, id) ==
    IF \E i \in DOMAIN vs : vs[i].ID = id
    THEN CHOOSE i \in DOMAIN vs : vs[i].ID = id /\ \A j \in DOMAIN vs : vs[j].ID = id => i <= j
    ELSE IF vs = << >> THEN 0 ELSE 1

\* slices.IndexFunc(vs, sameID): the first index with that ID, 0 when none
IndexOfID(vs, id) ==
    IF \E i \in DOMAIN vs : vs[i].ID = id
    THEN CHOOSE i \in DOMAIN vs : vs[i].ID = id /\ \A j \in DOMAIN vs : vs[j].ID = id => i <= j
    ELSE 0

\* the body of the inner loop of calculateVehicleBearings for one vehicle
SmoothVehicle(oldRouteVehicles, newVehicle) ==
    LET oldVehicleIdx == IndexOfID(oldRouteVehicles, newVehicle.ID)
    IN IF oldVehicleIdx = 0
       THEN newVehicle
       ELSE LET oldVehicle == oldRouteVehicles[oldVehicleIdx]
                oldPosition == [Lat |-> oldVehicle.Latitude, Lon |-> oldVehicle.Longitude]
                newPosition == [Lat |-> newVehicle.Latitude, Lon |-> newVehicle.Longitude]
                newAzimuth == calculateBearing(oldPosition, newPosition)
                oldAzimuth == oldVehicle.Direction
            IN IF calculateDistanceSq(oldPosition, newPosition) < MoveThresholdSq
               THEN [newVehicle EXCEPT !.Direction = oldAzimuth]
               ELSE IF Abs(newAzimuth - oldVehicle.Direction) > BearingThreshold
                    THEN [newVehicle EXCEPT !.Direction = newAzimuth]
                    ELSE [newVehicle EXCEPT !.Direction = oldAzimuth]

\* a smoother that looks for the vehicle's fix on every route of oldRoutes
calculateVehicleBearingsAnyRoute(oldRoutes, newR) ==
    [r \in DOMAIN newR |->
        [i \in DOMAIN newR[r] |->
            IF \E q \in DOMAIN oldRoutes : IndexOfID(oldRoutes[q], newR[r][i].ID) # 0
            THEN SmoothVehicle(oldRoutes[CHOOSE q \in DOMAIN oldRoutes :
                                            IndexOfID(oldRoutes[q], newR[r][i].ID) # 0],
                               newR[r][i])
            ELSE newR[r][i]]]

\* calculateVehicleBearings: the contents of newRoutes when it returns
calculateVehicleBearings(oldRoutes, newR) ==
    [r \in DOMAIN newR |->
        IF r \notin DOMAIN oldRoutes
        THEN newR[r]
        ELSE [i \in DOMAIN newR[r] |-> SmoothVehicle(oldRoutes[r], newR[r][i])]]

\* headings written into the map that is already stored
UpdatedRoutesInPlace(oldRef, newRef) == oldRef

\* the map calculateVehicleBearings assigns into and returns
UpdatedRoutes(oldRef, newRef) == newRef

(***************************************************************************)
(* The update loop's timestamp check.                                      *)
(***************************************************************************)
\* a check that takes any feed whose timestamp differs from the stored one
newDataAvailableIfDifferent(cachedTimestamp, headerTimestamp) ==
    cachedTimestamp # headerTimestamp

\* a check that also takes a feed whose timestamp equals the stored one
newDataAvailableOrEqual(cachedTimestamp, headerTimestamp) ==
    cachedTimestamp <= headerTimestamp

\* a loop that ends when a fetch fails, as main does for its first fetch
AfterFetchErrorFatal == "exited"

\* newDataAvailable := cachedTimestamp < headerTimestamp
newDataAvailable(cachedTimestamp, headerTimestamp) == cachedTimestamp < headerTimestamp

\* whether the cycle goes on to build and publish a snapshot
AcceptsFeed(f, cachedTimestamp) ==
    IF f.hasTs THEN newDataAvailable(cachedTimestamp, f.ts) ELSE TRUE

\* where the loop goes when fetchGTFSRealTime returned an error: continue
AfterFetchError == "sleep"

(***************************************************************************)
(* The subscriber's handler.                                               *)
(***************************************************************************)
\* loads that wait for the update loop to finish the cycle it is in
LoadWaitsForCycle(cyclePc) == cyclePc # "sleep"

\* atomic.LoadUint64 and allVehicles.Load() take no lock: they never wait
LoadWaits(cyclePc) == FALSE

\* a server that listens from the start of main
HandlersServeFromStart(firstStoreDone) == TRUE

\* http.HandleFunc and ListenAndServe come after allVehicles.Store(...) in
\* main: a request is served only once the first Store has been made
HandlersServe(firstStoreDone) == firstStoreDone

\* a read of the stored timestamp that swaps the handler's own value in
AfterSwapUint64(storedTs, clientLast) == clientLast

\* atomic.LoadUint64(&lastUpdateTimestamp): the variable after the load
AfterLoadUint64(storedTs, clientLast) == storedTs

\* a handler that starts from the timestamp stored when the client connects
InitialClientLastUpdateCurrent == lastUpdateTimestamp

\* a test that also holds when the timestamps are equal
ClientBehindOrLevel(current, clientLast) == current >= clientLast

\* a handler that never looks at its context
AfterContextCheckNever(done) == "poll"

\* a handler that returns while its context is not done
AfterContextCheckInverted(done) == IF done THEN "poll" ELSE "exited"

\* clientLastUpdate := uint64(0)
InitialClientLastUpdate == 0

\* the subscriber's test, current > clientLastUpdate
ClientBehind(current, clientLast) == current > clientLast

\* if r.Context().Err() != nil { return }, after the sleep
AfterContextCheck(done) == IF done THEN "exited" ELSE "poll"

Fetched(outcome, hasTs, ts) == [outcome |-> outcome, hasTs |-> hasTs, ts |-> ts]

(***************************************************************************)
(* Route maps by reference.  A map no goroutine refers to any more is      *)
(* garbage: it leaves the heap.                                            *)
(***************************************************************************)
Live(stored_, new, held) == ({stored_, new} \cup {held[s] : s \in Subscribers}) \ {0}

Collect(h, live) == [o \in DOMAIN h \cap live |-> h[o]]

With(h, o, x) == [k \in DOMAIN h \cup {o} |-> IF k = o THEN x ELSE h[k]]

\* routes := map[RouteID]Vehicles{}: a reference no goroutine holds
Fresh(live) ==
    CHOOSE o \in 1..(Cardinality(live) + 1) : o \notin live /\ \A p \in 1..(o - 1) : p \in live

(***************************************************************************)
(* main up to the first Store: the initial archive load and feed fetch.    *)
(* A failed initial feed fetch, or an error from getTripsData, ends the    *)
(* program before it serves anything.                                      *)
(***************************************************************************)
Init ==
    \E get \in GetOutcomes, f \in Feeds :
        LET loaded == getTripsData(get, 1, "")
        IN /\ ~loaded.err
           /\ archiveVer = 1
           /\ routesToTrips = LoadRows(loaded.rows)
           /\ cachedTripsFilename = loaded.filename
           /\ muWriter = FALSE
           /\ lastUpdateTimestamp = (IF f.hasTs THEN f.ts ELSE 0)
           /\ allVehicles = 0
           /\ heap = [o \in {1} |-> NoRoutes]
           /\ pc = "getRoutes"
           /\ serving = FALSE
           /\ vehicles = getVehiclesData(f)
           /\ gi = 1
           /\ newRoutes = 1
           /\ spc = [s \in Subscribers |-> "absent"]
           /\ clientLastUpdate = [s \in Subscribers |-> 0]
           /\ svehicles = [s \in Subscribers |-> 0]
           /\ ctxDone = [s \in Subscribers |-> FALSE]
           /\ builtFrom = [o \in {1} |-> [hasTs |-> f.hasTs, ts |-> f.ts]]
           /\ storedValue = << >>
           /\ probes = << >>
           /\ refreshes = << >>
           /\ lastFetch = Fetched("none", FALSE, 0)
           /\ holdsCurrent = [s \in Subscribers |-> FALSE]
           /\ sentTs = [s \in Subscribers |-> << >>]
           /\ tsSeen = [s \in Subscribers |-> {}]
           /\ sentAfterDone = [s \in Subscribers |-> 0]

(***************************************************************************)
(* The archive server publishes its next version.                          *)
(***************************************************************************)
ArchiveChange ==
    /\ archiveVer < Len(Archives)
    /\ archiveVer' = archiveVer + 1
    /\ UNCHANGED <<stored, cache, loop, subs, hist, shist>>

(***************************************************************************)
(* getRoutes: one iteration of its loop over the vehicles.                 *)
(***************************************************************************)
GetRoutesIter ==
    /\ pc = "getRoutes"
    /\ gi <= Len(vehicles)
    /\ RLockAvailable(muWriter)
    /\ LET v == vehicles[gi]
           first == getTrip(routesToTrips, v.route, v.trip)
       IN IF first.exists
          THEN /\ heap' = [heap EXCEPT ![newRoutes] = AddVehicle(@, v, first.trip)]
               /\ gi' = gi + 1
               /\ UNCHANGED <<cache, pc, probes, refreshes>>
          ELSE \E head \in HeadResponses(Archives[archiveVer]) :
               /\ probes' = Append(probes, head)
               /\ IF ~isTripsDataStale(head, cachedTripsFilename)
                  THEN /\ heap' = [heap EXCEPT ![newRoutes] = AddVehicle(@, v, first.trip)]
                       /\ gi' = gi + 1
                       /\ UNCHANGED <<cache, pc, refreshes>>
                  ELSE \E get \in GetOutcomes :
                       LET res == getTripsData(get, archiveVer, cachedTripsFilename)
                           reloaded == IF ReloadsCache(res.err)
                                       THEN LoadRows(res.rows)
                                       ELSE routesToTrips
                           retry == getTrip(reloaded, v.route, v.trip)
                       IN /\ refreshes' = Append(refreshes, get)
                          /\ cachedTripsFilename' = res.filename
                          /\ routesToTrips' = reloaded
                          \* mu.Lock with the unlock deferred to the return of
                          \* getRoutes: the retried getTrip waits for the read lock
                          /\ muWriter' = ReloadsCache(res.err)
                          /\ IF ~RLockAvailable(muWriter')
                             THEN /\ pc' = "blocked"
                                  /\ heap' = [heap EXCEPT ![newRoutes] = EnsureRoute(@, v.route)]
                                  /\ gi' = gi
                             ELSE /\ pc' = pc
                                  /\ heap' = [heap EXCEPT ![newRoutes] = AddVehicle(@, v, retry.trip)]
                                  /\ gi' = gi + 1
    /\ UNCHANGED <<lastUpdateTimestamp, allVehicles, archiveVer, serving, vehicles,
                   newRoutes, subs, builtFrom, storedValue, lastFetch, shist>>

(***************************************************************************)
(* main: allVehicles.Store(getRoutes(vehicles)), then the update loop is   *)
(* started and the handlers are registered.                                *)
(***************************************************************************)
InitStore ==
    /\ pc = "getRoutes"
    /\ gi > Len(vehicles)
    /\ ~serving
    /\ allVehicles' = newRoutes
    /\ storedValue' = With(storedValue, newRoutes, heap[newRoutes])
    /\ serving' = TRUE
    /\ pc' = "sleep"
    /\ vehicles' = << >>
    /\ gi' = 1
    /\ newRoutes' = 0
    /\ probes' = << >>
    /\ refreshes' = << >>
    \* the deferred mu.Unlock() of getRoutes, if it took the lock
    /\ muWriter' = FALSE
    /\ UNCHANGED <<lastUpdateTimestamp, heap, routesToTrips, cachedTripsFilename,
                   archiveVer, subs, builtFrom, lastFetch, shist>>

(***************************************************************************)
(* The update loop goroutine.                                              *)
(***************************************************************************)
\* time.Sleep(2 * time.Second) returns and the fetch is issued
Tick ==
    /\ pc = "sleep"
    /\ pc' = "fetch"
    /\ lastFetch' = (IF lastFetch.outcome = "fetchError"
                     THEN lastFetch
                     ELSE Fetched("none", FALSE, 0))
    /\ UNCHANGED <<stored, cache, archiveVer, serving, vehicles, gi, newRoutes, subs,
                   builtFrom, storedValue, probes, refreshes, shist>>

\* fetchGTFSRealTime returns an error: log and continue
FetchError ==
    /\ pc = "fetch"
    /\ pc' = AfterFetchError
    /\ lastFetch' = Fetched("fetchError", FALSE, 0)
    /\ UNCHANGED <<stored, cache, archiveVer, serving, vehicles, gi, newRoutes, subs,
                   builtFrom, storedValue, probes, refreshes, shist>>

\* fetchGTFSRealTime returns a feed: the timestamp check and store,
\* getVehiclesData, and the start of getRoutes
FetchOkFrom(feeds) ==
    /\ pc = "fetch"
    /\ \E f \in feeds :
         IF AcceptsFeed(f, lastUpdateTimestamp)
         THEN /\ lastUpdateTimestamp' = (IF f.hasTs THEN f.ts ELSE lastUpdateTimestamp)
              /\ vehicles' = getVehiclesData(f)
              /\ newRoutes' = Fresh(Live(allVehicles, 0, svehicles))
              /\ heap' = With(heap, newRoutes', NoRoutes)
              /\ builtFrom' = With(builtFrom, newRoutes', [hasTs |-> f.hasTs, ts |-> f.ts])
              /\ gi' = 1
              /\ pc' = "getRoutes"
              /\ tsSeen' = [s \in Subscribers |->
                             IF spc[s] \notin {"absent", "exited"}
                             THEN tsSeen[s] \cup {lastUpdateTimestamp'}
                             ELSE tsSeen[s]]
              /\ lastFetch' = Fetched("accepted", f.hasTs, f.ts)
         ELSE /\ pc' = "sleep"
              /\ lastFetch' = Fetched("discarded", f.hasTs, f.ts)
              /\ UNCHANGED <<lastUpdateTimestamp, vehicles, newRoutes, heap, builtFrom, gi,
                             tsSeen>>
    /\ UNCHANGED <<allVehicles, cache, archiveVer, serving, subs, storedValue, probes,
                   refreshes, sentTs, holdsCurrent, sentAfterDone>>

FetchOk == FetchOkFrom(Feeds)

FetchSample == FetchOkFrom(SampleFeeds)

\* oldRoutes := allVehicles.Load(); calculateVehicleBearings(oldRoutes, newRoutes)
Bearings ==
    /\ pc = "getRoutes"
    /\ gi > Len(vehicles)
    /\ serving
    /\ heap' = [heap EXCEPT ![UpdatedRoutes(allVehicles, newRoutes)] =
                   calculateVehicleBearings(heap[allVehicles], heap[newRoutes])]
    /\ pc' = "store"
    \* getRoutes has returned: its deferred mu.Unlock(), if it took the lock
    /\ muWriter' = FALSE
    /\ UNCHANGED <<lastUpdateTimestamp, allVehicles, routesToTrips, cachedTripsFilename,
                   archiveVer, serving, vehicles, gi, newRoutes, subs, hist, shist>>

\* allVehicles.Store(updatedRoutes)
StoreRoutes ==
    /\ pc = "store"
    /\ allVehicles' = UpdatedRoutes(allVehicles, newRoutes)
    /\ LET live == Live(allVehicles', 0, svehicles)
       IN /\ heap' = Collect(heap, live)
          /\ builtFrom' = Collect(builtFrom, live)
          /\ storedValue' = Collect(With(storedValue, allVehicles', heap[allVehicles']), live)
    /\ lastFetch' = Fetched("published", FALSE, 0)
    /\ holdsCurrent' = [s \in Subscribers |-> FALSE]
    /\ pc' = "sleep"
    /\ vehicles' = << >>
    /\ gi' = 1
    /\ newRoutes' = 0
    /\ probes' = << >>
    /\ refreshes' = << >>
    /\ UNCHANGED <<lastUpdateTimestamp, cache, archiveVer, serving, subs,
                   sentTs, tsSeen, sentAfterDone>>

(***************************************************************************)
(* sseHandler, one per connection.                                         *)
(***************************************************************************)
\* a client connects: headers are set, clientLastUpdate := 0
Connect(s) ==
    /\ HandlersServe(serving)
    /\ spc[s] = "absent"
    /\ spc' = [spc EXCEPT ![s] = "poll"]
    /\ clientLastUpdate' = [clientLastUpdate EXCEPT ![s] = InitialClientLastUpdate]
    /\ tsSeen' = [tsSeen EXCEPT ![s] = {lastUpdateTimestamp}]
    /\ UNCHANGED <<stored, cache, archiveVer, loop, svehicles, ctxDone, hist, sentTs,
                   holdsCurrent, sentAfterDone>>

\* current := atomic.LoadUint64(&lastUpdateTimestamp) and the comparison
Poll(s) ==
    /\ spc[s] = "poll"
    /\ ~LoadWaits(pc)
    /\ IF ClientBehind(lastUpdateTimestamp, clientLastUpdate[s])
       THEN /\ clientLastUpdate' = [clientLastUpdate EXCEPT ![s] = lastUpdateTimestamp]
            /\ spc' = [spc EXCEPT ![s] = "load"]
       ELSE /\ spc' = [spc EXCEPT ![s] = "sleep"]
            /\ UNCHANGED clientLastUpdate
    /\ lastUpdateTimestamp' = AfterLoadUint64(lastUpdateTimestamp, clientLastUpdate[s])
    /\ UNCHANGED <<allVehicles, heap, cache, archiveVer, loop, svehicles, ctxDone, hist, shist>>

\* vehicles := allVehicles.Load()
LoadSnapshot(s) ==
    /\ spc[s] = "load"
    /\ ~LoadWaits(pc)
    /\ svehicles' = [svehicles EXCEPT ![s] = allVehicles]
    /\ spc' = [spc EXCEPT ![s] = "write"]
    /\ UNCHANGED <<stored, cache, archiveVer, loop, clientLastUpdate, ctxDone, hist, shist>>

\* json.Marshal(vehicles), Fprintf, Flush: one event
Emit(s) ==
    /\ spc[s] = "write"
    /\ sentTs' = [sentTs EXCEPT ![s] = Append(@, clientLastUpdate[s])]
    /\ holdsCurrent' = [holdsCurrent EXCEPT ![s] = (svehicles[s] = allVehicles)]
    /\ sentAfterDone' = [sentAfterDone EXCEPT ![s] = IF ctxDone[s] THEN @ + 1 ELSE @]
    /\ spc' = [spc EXCEPT ![s] = "sleep"]
    /\ svehicles' = [svehicles EXCEPT ![s] = 0]
    /\ LET live == Live(allVehicles, newRoutes, svehicles')
       IN /\ heap' = Collect(heap, live)
          /\ builtFrom' = Collect(builtFrom, live)
          /\ storedValue' = Collect(storedValue, live)
    /\ UNCHANGED <<lastUpdateTimestamp, allVehicles, cache, archiveVer, loop, clientLastUpdate,
                   ctxDone, probes, refreshes, lastFetch, tsSeen>>

\* time.Sleep(1 * time.Second), then if r.Context().Err() != nil { return }
SleepCheck(s) ==
    /\ spc[s] = "sleep"
    /\ spc' = [spc EXCEPT ![s] = AfterContextCheck(ctxDone[s])]
    /\ UNCHANGED <<stored, cache, archiveVer, loop, clientLastUpdate, svehicles, ctxDone, hist,
                   shist>>

\* the client goes away: the request context reports done
Disconnect(s) ==
    /\ spc[s] \notin {"absent", "exited"}
    /\ ~ctxDone[s]
    /\ ctxDone' = [ctxDone EXCEPT ![s] = TRUE]
    /\ UNCHANGED <<stored, cache, archiveVer, loop, spc, clientLastUpdate, svehicles, hist,
                   shist>>

SubscriberStep(s) ==
    \/ Poll(s)
    \/ LoadSnapshot(s)
    \/ Emit(s)
    \/ SleepCheck(s)

\* main and the update loop goroutine, and the archive server
LoopNext ==
    \/ ArchiveChange
    \/ GetRoutesIter
    \/ InitStore
    \/ Tick
    \/ FetchError
    \/ FetchOk
    \/ Bearings
    \/ StoreRoutes

Next ==
    \/ LoopNext
    \/ \E s \in Subscribers : Connect(s)
    \/ \E s \in Subscribers : SubscriberStep(s)
    \/ \E s \in Subscribers : Disconnect(s)

\* the program while no client is connected
LoopSpec == Init /\ [][LoopNext]_vars

\* the initial states in which the initial archive download succeeded
InitLoaded == Init /\ cachedTripsFilename # ""

\* the program with its clients; the handlers never read the cache, and the
\* runs with clients start with the archive loaded
Spec == InitLoaded /\ [][Next]_vars

\* the Go scheduler runs every runnable goroutine and every sleep returns: a
\* subscriber's handler takes its next step
FairSpec == Spec /\ \A s \in Subscribers : WF_vars(SubscriberStep(s))

(***************************************************************************)
(* The update loop over the sample feeds, from a stored snapshot of one    *)
(* vehicle: the program was started when the second archive version was    *)
(* current, no client is connected, and the archive stays as it is.        *)
(***************************************************************************)
SmoothInit ==
    \E p \in SamplePositions, h \in SampleHeadings :
        LET v == VehAt("v1", "r1", "t1", p)
            trip == getTrip(LoadRows(Archives[2].rows), v.route, v.trip).trip
            built == AddVehicle(NoRoutes, v, trip)
            previous == [built EXCEPT !["r1"][1].Direction = h]
        IN /\ archiveVer = 2
           /\ routesToTrips = LoadRows(Archives[2].rows)
           /\ cachedTripsFilename = Archives[2].disposition
           /\ muWriter = FALSE
           /\ lastUpdateTimestamp = 0
           /\ allVehicles = 1
           /\ heap = [o \in {1} |-> previous]
           /\ pc = "sleep"
           /\ serving = TRUE
           /\ vehicles = << >>
           /\ gi = 1
           /\ newRoutes = 0
           /\ spc = [s \in Subscribers |-> "absent"]
           /\ clientLastUpdate = [s \in Subscribers |-> 0]
           /\ svehicles = [s \in Subscribers |-> 0]
           /\ ctxDone = [s \in Subscribers |-> FALSE]
           /\ builtFrom = [o \in {1} |-> [hasTs |-> FALSE, ts |-> 0]]
           /\ storedValue = [o \in {1} |-> previous]
           /\ probes = << >>
           /\ refreshes = << >>
           /\ lastFetch = Fetched("none", FALSE, 0)
           /\ holdsCurrent = [s \in Subscribers |-> FALSE]
           /\ sentTs = [s \in Subscribers |-> << >>]
           /\ tsSeen = [s \in Subscribers |-> {}]
           /\ sentAfterDone = [s \in Subscribers |-> 0]

SmoothNext ==
    \/ Tick
    \/ FetchSample
    \/ GetRoutesIter
    \/ Bearings
    \/ StoreRoutes

SmoothSpec == SmoothInit /\ [][SmoothNext]_vars

(***************************************************************************)
(* Properties of the update loop.                                          *)
(***************************************************************************)
\* the header of the feed the loop fetched in this step
FetchedNow == pc = "fetch" /\ lastFetch'.outcome \in {"accepted", "discarded"}

\* C1: the stored timestamp never decreases; it changes only in a step that
\* fetched a feed whose header timestamp is strictly greater than the stored
\* one, and it then becomes exactly that feed timestamp.
C1_TimestampMonotonic ==
    [][ /\ lastUpdateTimestamp' >= lastUpdateTimestamp
        /\ lastUpdateTimestamp' # lastUpdateTimestamp =>
               /\ FetchedNow
               /\ lastFetch'.hasTs
               /\ lastFetch'.ts > lastUpdateTimestamp
               /\ lastUpdateTimestamp' = lastFetch'.ts ]_vars

\* the loop took a feed whose timestamp is above the one the stored snapshot
\* was built from, and the stored timestamp is now that feed's
C1_Witness ==
    /\ serving
    /\ pc = "getRoutes"
    /\ lastFetch.outcome = "accepted"
    /\ lastFetch.hasTs
    /\ lastUpdateTimestamp = lastFetch.ts
    /\ builtFrom[allVehicles].hasTs
    /\ builtFrom[allVehicles].ts < lastUpdateTimestamp

\* C2: when the fetched feed carries a timestamp that is less than or equal
\* to the stored one, the cycle changes nothing: the snapshot, the stored
\* timestamp, the trip cache and its version token stay as they were, no
\* probe of the archive and no refresh is made, and the loop sleeps again.
C2_StaleFeedIsNoOp ==
    [][ (FetchedNow /\ lastFetch'.hasTs /\ lastFetch'.ts <= lastUpdateTimestamp) =>
            /\ pc' = "sleep"
            /\ UNCHANGED <<lastUpdateTimestamp, allVehicles, heap>>
            /\ UNCHANGED <<routesToTrips, cachedTripsFilename>>
            /\ probes = << >> /\ probes' = << >>
            /\ refreshes = << >> /\ refreshes' = << >> ]_vars

\* a feed with the stored timestamp itself was fetched and dropped
C2_Witness ==
    /\ serving
    /\ pc = "sleep"
    /\ lastFetch.outcome = "discarded"
    /\ lastFetch.hasTs
    /\ lastFetch.ts = lastUpdateTimestamp

\* C3: a failed fetch leaves the stored snapshot and the stored timestamp
\* as they are, and the loop goes back to its sleep with everything it
\* works on as it was before the cycle, so that it fetches again and a
\* later feed is treated as it would have been without the failure.
C3_FetchFailureKeepsState ==
    /\ [][ (pc = "fetch" /\ pc' # "fetch" /\ lastFetch'.outcome = "fetchError") =>
              /\ UNCHANGED <<stored, cache, serving, vehicles, gi, newRoutes>>
              /\ pc' = "sleep" ]_vars
    /\ [](lastFetch.outcome = "fetchError" =>
              /\ pc \in {"sleep", "fetch"}
              /\ pc = "sleep" => ENABLED Tick
              /\ pc = "fetch" => ENABLED FetchOk)

\* a fetch failed and the loop, still serving the snapshot it had stored,
\* is fetching again
C3_Witness ==
    /\ serving
    /\ pc = "fetch"
    /\ lastFetch.outcome = "fetchError"
    /\ allVehicles \in DOMAIN storedValue

(***************************************************************************)
(* Properties of what a subscriber reads and is sent.                      *)
(***************************************************************************)
\* the timestamp that was stored when s connected: the stored timestamp
\* never decreases
ConnectTs(s) == CHOOSE t \in tsSeen[s] : \A u \in tsSeen[s] : t <= u

\* C4: a reader that loaded the timestamp T and then the snapshot never
\* holds the snapshot of an earlier feed together with the newer timestamp.
C4_NoOlderSnapshotWithNewerTimestamp ==
    \A s \in Subscribers :
        (spc[s] = "write" /\ builtFrom[svehicles[s]].hasTs) =>
            builtFrom[svehicles[s]].ts >= clientLastUpdate[s]

\* C5: a map that has been stored is never written again, so whoever loads
\* the snapshot holds all of the previous map or all of the next one; the
\* map the loop is still writing is not a stored one.
C5_StoredSnapshotImmutable ==
    /\ \A o \in DOMAIN storedValue : o \in DOMAIN heap /\ heap[o] = storedValue[o]
    /\ \A s \in Subscribers : svehicles[s] # 0 => svehicles[s] \in DOMAIN storedValue
    /\ pc \in {"getRoutes", "blocked", "store"} => newRoutes \notin DOMAIN storedValue
    /\ serving => allVehicles \in DOMAIN storedValue

\* a subscriber still holds the previous map, with the contents it was
\* stored with, after the loop has stored the next one with a heading set
C5_Witness ==
    \E s \in Subscribers :
        /\ spc[s] = "write"
        /\ svehicles[s] # allVehicles
        /\ heap[svehicles[s]] # heap[allVehicles]
        /\ \E r \in DOMAIN heap[allVehicles] :
              \E i \in DOMAIN heap[allVehicles][r] : heap[allVehicles][r][i].Direction # 0

\* C6: once the loop is idle with the snapshot of the feed whose timestamp
\* is stored, a subscriber that has taken that timestamp and has been sent
\* an event for it was sent the snapshot that is now stored.
C6_LastEventIsCurrentSnapshot ==
    \A s \in Subscribers :
        ( /\ pc = "sleep"
          /\ builtFrom[allVehicles].hasTs
          /\ builtFrom[allVehicles].ts = lastUpdateTimestamp
          /\ spc[s] = "sleep"
          /\ clientLastUpdate[s] = lastUpdateTimestamp
          /\ sentTs[s] # << >> ) => holdsCurrent[s]

\* C7 as stated: a subscriber that has reached its wait has been sent an
\* event, whatever the stored timestamp was when it connected.
C7_EventBeforeFirstWait ==
    \A s \in Subscribers : spc[s] = "sleep" => Len(sentTs[s]) >= 1

\* C7 amended: a subscriber that connected while the stored timestamp was
\* above 0 has been sent an event when it reaches its wait; one that has
\* only seen the stored timestamp 0 has been sent nothing.
C7_EventBeforeFirstWaitIfStamped ==
    \A s \in Subscribers :
        spc[s] = "sleep" =>
            /\ ConnectTs(s) > 0 => Len(sentTs[s]) >= 1
            /\ tsSeen[s] = {0} => sentTs[s] = << >>

\* a subscriber that connected at a stored timestamp above 0 is at its first
\* wait and has its one event
C7_Witness ==
    \E s \in Subscribers :
        /\ spc[s] = "sleep"
        /\ tsSeen[s] = {lastUpdateTimestamp}
        /\ lastUpdateTimestamp > 0
        /\ sentTs[s] = <<lastUpdateTimestamp>>

\* C8: a subscriber is sent no more events than there were distinct values
\* of the stored timestamp while it was connected, each event goes with one
\* of these values, and no two events go with the same value.
C8_AtMostOneEventPerTimestamp ==
    \A s \in Subscribers :
        /\ Len(sentTs[s]) <= Cardinality(tsSeen[s])
        /\ \A i \in DOMAIN sentTs[s] : sentTs[s][i] \in tsSeen[s]
        /\ \A i, j \in DOMAIN sentTs[s] : i < j => sentTs[s][i] < sentTs[s][j]

\* a subscriber has been sent two events, for two stored timestamps
C8_Witness ==
    \E s \in Subscribers : Len(sentTs[s]) = 2 /\ spc[s] = "sleep"

\* C9: once the context of a subscriber is done its handler returns, at the
\* first context check it comes to, whatever the update loop is doing.
C9_DisconnectEndsHandler ==
    /\ \A s \in Subscribers : ctxDone[s] ~> spc[s] = "exited"
    /\ [][ \A s \in Subscribers :
             (ctxDone[s] /\ spc[s] = "sleep" /\ spc'[s] # "sleep") =>
                 spc'[s] = "exited" ]_vars

\* a handler has returned while the update loop is stuck in getRoutes
C9_Witness ==
    \E s \in Subscribers : spc[s] = "exited" /\ ctxDone[s] /\ pc = "blocked"

\* C10 as stated: once the context is done no further event is written.
C10_NoEventAfterDone ==
    [][ \A s \in Subscribers : ctxDone[s] => sentTs'[s] = sentTs[s] ]_vars

\* C10 amended: after its context is done a handler writes at most one
\* further event, the one of an iteration that was past the context check,
\* and none once it has reached its wait; it returns only when done.
C10_AtMostOneEventAfterDone ==
    /\ [](\A s \in Subscribers :
             /\ sentAfterDone[s] <= 1
             /\ spc[s] = "exited" => ctxDone[s])
    /\ [][ \A s \in Subscribers :
             (ctxDone[s] /\ spc[s] \in {"sleep", "exited"}) =>
                 sentTs'[s] = sentTs[s] ]_vars

\* a handler has returned after writing an event while its context was done
C10_Witness ==
    \E s \in Subscribers : spc[s] = "exited" /\ sentAfterDone[s] = 1

(***************************************************************************)
(* Properties of the handlers while the update loop is stalled.            *)
(***************************************************************************)
\* the handler of s is running
Connected(s) == spc[s] \in {"poll", "load", "write", "sleep"}

\* C11: wherever the update loop stands, and if it never moves again, a
\* running handler can take its next step; one that is behind the stored
\* timestamp comes to write an event for it unless its context is done, and
\* one whose context is done returns.
C11_HandlersRunWhileLoopStalls ==
    /\ [](\A s \in Subscribers : Connected(s) => ENABLED SubscriberStep(s))
    /\ \A s \in Subscribers :
          (Connected(s) /\ lastUpdateTimestamp > clientLastUpdate[s]) ~>
              (ctxDone[s] \/ (spc[s] = "write" /\ clientLastUpdate[s] = lastUpdateTimestamp))

\* the loop is waiting for the answer to its fetch and a handler has been
\* sent the stored snapshot and is at its wait
C11_Witness ==
    \E s \in Subscribers :
        /\ pc = "fetch"
        /\ spc[s] = "sleep"
        /\ Len(sentTs[s]) = 1
        /\ holdsCurrent[s]

(***************************************************************************)
(* Properties of the trip metadata cache.                                  *)
(***************************************************************************)
\* this step of getRoutes made a GET request to the archive
RefreshedNow == Len(refreshes') = Len(refreshes) + 1

\* this step of getRoutes looked a pair up and missed: it made a HEAD request
MissedNow == Len(probes') = Len(probes) + 1

\* the answer to the GET request of this step
GetNow == refreshes'[Len(refreshes')]

\* the answer to the HEAD request of this step
HeadNow == probes'[Len(probes')]

\* C12: a refresh that fails, because the archive cannot be fetched or
\* read, has no trips file, or has a trips file that cannot be parsed,
\* leaves the cache mapping and the version token as they were.
C12_FailedRefreshKeepsCache ==
    [][ (RefreshedNow /\ GetNow \in {"error", "notrips", "malformed"}) =>
            UNCHANGED <<routesToTrips, cachedTripsFilename>> ]_vars

\* C13: after a refresh whose download and parse succeeded the cache
\* mapping is the mapping parsed from the archive that was downloaded.
C13_SuccessfulRefreshLoadsArchive ==
    [][ (RefreshedNow /\ GetNow = "ok") =>
            routesToTrips' = LoadRows(Archives[archiveVer].rows) ]_vars

\* the mappings a lookup may see: what was loaded from an archive, or from
\* the rows of a download that gave none
CompleteMappings ==
    {LoadRows(Archives[v].rows) : v \in DOMAIN Archives} \cup {LoadRows(<< >>)}

\* C14: the mapping changes only in a step that holds the write lock from
\* before the clearing until the new mapping is complete; while the write
\* lock is held no lookup runs, and the mapping is at all times a complete
\* one, the old or the new.
C14_RefreshExcludesLookups ==
    /\ [](routesToTrips \in CompleteMappings)
    /\ [][ routesToTrips' # routesToTrips => (~muWriter /\ muWriter') ]_vars
    /\ [][ muWriter => ~MissedNow /\ gi' = gi /\ heap[newRoutes] = heap'[newRoutes] ]_vars

\* the write lock was taken and the mapping replaced, by the empty one
C14_Witness ==
    /\ muWriter
    /\ routesToTrips = LoadRows(<< >>)
    /\ cachedTripsFilename = Archives[2].disposition
    /\ refreshes # << >>

\* C15: an iteration of getRoutes makes at most one refresh, and makes one
\* when its lookup missed and the probe said stale; a refresh that succeeded
\* has recorded the archive's token, and while the recorded token is the
\* archive's a miss makes no refresh.
C15_OneRefreshPerStaleMiss ==
    [][ /\ Len(refreshes') <= Len(refreshes) + 1
        /\ RefreshedNow => MissedNow
        /\ (MissedNow /\ isTripsDataStale(HeadNow, cachedTripsFilename)) => RefreshedNow
        /\ (RefreshedNow /\ GetNow = "ok") =>
               cachedTripsFilename' = Archives[archiveVer].disposition
        /\ (MissedNow /\ cachedTripsFilename = Archives[archiveVer].disposition) =>
               ~RefreshedNow ]_vars

\* in a cycle after the one whose refresh downloaded version 2, the pair
\* (r2, t2) has missed again and no refresh was made
C15_Witness ==
    /\ archiveVer = 2
    /\ cachedTripsFilename = Archives[2].disposition
    /\ <<"r2", "t2">> \notin DOMAIN routesToTrips
    /\ pc = "store"
    /\ Len(probes) = 1
    /\ refreshes = << >>

\* C16: a refresh is made only in an iteration whose lookup missed and
\* whose staleness check was true; a miss while the recorded token is the
\* archive's makes no download and leaves the cache and the token alone.
C16_RefreshOnlyOnStaleMiss ==
    [][ /\ RefreshedNow =>
               (MissedNow /\ isTripsDataStale(HeadNow, cachedTripsFilename))
        /\ (MissedNow /\ cachedTripsFilename = Archives[archiveVer].disposition) =>
               /\ ~RefreshedNow
               /\ UNCHANGED <<routesToTrips, cachedTripsFilename, muWriter>> ]_vars

\* the pair (r2, t2) missed against the cache of version 1 while the
\* archive is still version 1: the probe answered with the recorded token
C16_Witness ==
    /\ archiveVer = 1
    /\ cachedTripsFilename = Archives[1].disposition
    /\ probes # << >>
    /\ probes[Len(probes)].disposition = cachedTripsFilename
    /\ refreshes = << >>

\* C17: the staleness check is true only for a token from the server that
\* differs from the recorded one; it is false when they are equal and when
\* the probe fails; a probe changes neither the cache nor the token.
C17_StaleOnlyWhenTokenDiffers ==
    /\ [](\A v \in DOMAIN Archives : \A head \in HeadResponses(Archives[v]) :
            LET stale == isTripsDataStale(head, cachedTripsFilename)
            IN /\ stale => (~head.err /\ head.disposition # cachedTripsFilename)
               /\ head.err => ~stale
               /\ head.disposition = cachedTripsFilename => ~stale)
    /\ [][ (MissedNow /\ ~RefreshedNow) =>
              UNCHANGED <<routesToTrips, cachedTripsFilename, muWriter>> ]_vars

\* the archive has changed but the probe failed: no refresh was made
C17_Witness ==
    /\ archiveVer = 2
    /\ cachedTripsFilename = Archives[1].disposition
    /\ probes # << >>
    /\ probes[Len(probes)].err
    /\ refreshes = << >>

(***************************************************************************)
(* Properties of a cycle of the update loop.                               *)
(***************************************************************************)
\* the steps of a cycle after its fetch: getRoutes, the headings, the store
CycleStep == GetRoutesIter \/ InitStore \/ Bearings \/ StoreRoutes

\* the number of vehicles whose lookup, with the probe and the refresh that
\* a miss brings, has been made in this call of getRoutes
LookedUp == IF pc = "blocked" THEN gi ELSE gi - 1

\* the entries of the map under construction that are vehicle i of the feed
EntriesOf(i) ==
    LET v == vehicles[i]
        m == heap[newRoutes]
    IN IF v.route \in DOMAIN m
       THEN {k \in DOMAIN m[v.route] : m[v.route][k].ID = v.id}
       ELSE {}

\* C18: every vehicle of the accepted feed whose lookup has been made is
\* once in the map under its route, with the headsign of its trip or the
\* empty headsign when the lookup misses, and so is in the map when it is
\* stored.
C18_EveryVehicleIsPublished ==
    \A i \in DOMAIN vehicles :
        (serving /\ i <= LookedUp) =>
            /\ Cardinality(EntriesOf(i)) = 1
            /\ \A k \in EntriesOf(i) :
                  heap[newRoutes][vehicles[i].route][k].Headsign =
                      getTrip(routesToTrips, vehicles[i].route, vehicles[i].trip).trip.Headsign

\* the archive answers that are archive errors: unreachable or unreadable,
\* or without the trips file
ArchiveErrors == {"error", "notrips"}

\* C19 as stated: once an archive error has occurred in a cycle, nothing in
\* the rest of the cycle changes the stored snapshot or the stored timestamp.
C19_ArchiveErrorAbandonsCycle ==
    [][ (serving /\ \E i \in DOMAIN refreshes : refreshes[i] \in ArchiveErrors) =>
            UNCHANGED <<allVehicles, lastUpdateTimestamp>> ]_vars

\* C19 amended: an archive error leaves the cache and the token alone and
\* does not end the cycle: the vehicle whose lookup missed is added with
\* the empty headsign, getRoutes goes on, and the store at the end of the
\* cycle publishes the new map whatever the refreshes of the cycle were.
C19_ArchiveErrorIsContained ==
    /\ [][ (RefreshedNow /\ GetNow \in ArchiveErrors) =>
              /\ UNCHANGED <<routesToTrips, cachedTripsFilename, muWriter>>
              /\ pc' = "getRoutes"
              /\ gi' = gi + 1
              /\ LET v == vehicles[gi]
                     r == heap'[newRoutes][v.route]
                 IN r[Len(r)].ID = v.id /\ r[Len(r)].Headsign = "" ]_vars
    /\ [][ (pc = "store" /\ pc' # "store") =>
              /\ pc' = "sleep"
              /\ allVehicles' = newRoutes
              /\ heap'[allVehicles'] = heap[newRoutes] ]_vars

\* a cycle in which the archive could not be fetched is about to store its
\* map, which has a vehicle without headsign, after the stored timestamp
\* was raised to that of its feed
C19_Witness ==
    /\ serving
    /\ pc = "store"
    /\ refreshes = <<"error">>
    /\ lastFetch.hasTs
    /\ lastUpdateTimestamp = lastFetch.ts
    /\ \E r \in DOMAIN heap[newRoutes] :
          \E k \in DOMAIN heap[newRoutes][r] : heap[newRoutes][r][k].Headsign = ""

\* C20: a cycle that has been started is never stuck: as long as it has not
\* returned to the sleep of the loop it has a next step.
C20_CycleNeverStuck ==
    (serving /\ pc \notin {"sleep", "fetch"}) => ENABLED CycleStep


(***************************************************************************)
(* Properties of publication.                                              *)
(***************************************************************************)
\* the step of the update loop that replaces the stored snapshot
Publishes == serving /\ allVehicles' # allVehicles

\* C30: the stored snapshot is replaced only in a cycle that also strictly
\* increased the stored timestamp, feeds without a header timestamp
\* included: the feed of the cycle had a header timestamp, and it passed the
\* check cachedTimestamp < headerTimestamp.
C30_PublishOnlyWithNewerTimestamp ==
    [][Publishes =>
         /\ lastFetch.outcome = "accepted"
         /\ lastFetch.hasTs
         /\ lastFetch.ts = lastUpdateTimestamp
         /\ builtFrom[allVehicles'].hasTs]_vars


\* the headsign vehicle i of the cycle's feed gets from the cache as it is now
HeadsignNow(i) ==
    getTrip(routesToTrips, vehicles[i].route, vehicles[i].trip).trip.Headsign

\* C28: while getRoutes runs on, and when its map goes on to be stored,
\* every vehicle looked up so far carries the headsign that the cache as it
\* is now gives for its trip: all the vehicles of a snapshot are enriched
\* from one version of the cache mapping.
C28_OneCacheVersionPerSnapshot ==
    pc \in {"getRoutes", "store"} =>
        \A i \in 1..(gi - 1) : \A k \in EntriesOf(i) :
            heap[newRoutes][vehicles[i].route][k].Headsign = HeadsignNow(i)

\* a snapshot of two vehicles is about to be stored, and its cycle made a
\* refresh attempt between the lookups
C28_Witness ==
    /\ pc = "store"
    /\ serving
    /\ Len(vehicles) = 2
    /\ Len(refreshes) > 0
    /\ \A i \in 1..2 : EntriesOf(i) # {}
    /\ \E i \in 1..2 : HeadsignNow(i) # ""


\* the step in which calculateVehicleBearings runs and returns
Smooths == pc = "getRoutes" /\ pc' = "store"

\* C24: the call of calculateVehicleBearings leaves the previous snapshot,
\* the map that is stored and that subscribers may be reading, with the
\* routes, vehicles, coordinates, headsigns and headings it had.
C24_SmootherKeepsPrevious ==
    [][Smooths =>
         /\ allVehicles' = allVehicles
         /\ allVehicles \in DOMAIN heap'
         /\ heap'[allVehicles] = heap[allVehicles]]_vars

\* the smoother has given a vehicle of the new map a heading other than the
\* default, from its fix in the previous snapshot
C24_Witness ==
    /\ pc = "store"
    /\ \E r \in DOMAIN heap[newRoutes] \cap DOMAIN heap[allVehicles] :
         \E k \in DOMAIN heap[newRoutes][r] :
            /\ heap[newRoutes][r][k].Direction # 0
            /\ IndexOfID(heap[allVehicles][r], heap[newRoutes][r][k].ID) # 0


(***************************************************************************)
(* Properties of the handlers.                                             *)
(***************************************************************************)
\* a step of a handler: a connection is set up, or a handler moves on
HandlerStep == spc' # spc

\* C29: no step of a handler changes the stored snapshot (the reference or
\* the map it refers to), the stored timestamp, the trip cache, its token or
\* its lock, whatever the update loop is doing.
C29_HandlersOnlyRead ==
    [][HandlerStep =>
         /\ allVehicles' = allVehicles
         /\ allVehicles \in DOMAIN heap'
         /\ heap'[allVehicles] = heap[allVehicles]
         /\ lastUpdateTimestamp' = lastUpdateTimestamp
         /\ routesToTrips' = routesToTrips
         /\ cachedTripsFilename' = cachedTripsFilename
         /\ muWriter' = muWriter]_vars

\* a handler that has sent an event is writing its next one while the
\* update loop is in the middle of a cycle
C29_Witness ==
    \E s \in Subscribers :
        /\ Len(sentTs[s]) > 0
        /\ spc[s] = "write"
        /\ pc \in {"getRoutes", "store"}
        /\ lastUpdateTimestamp > 0


(***************************************************************************)
(* Properties of the heading smoother.  At pc = "store" the smoother has   *)
(* run: heap[allVehicles] is the previous snapshot, heap[newRoutes] the    *)
(* map it returned.                                                        *)
(***************************************************************************)
Origin == <<Deg(0), Deg(0)>>

\* 2^-18 * sqrt(2^2 + 1^2) degrees from Origin: 8.53e-6 degrees
NearOrigin == <<Deg(2), Deg(1)>>

West == <<Deg(0), Deg(-3)>>

Position(v) == <<v.Latitude, v.Longitude>>

\* the positions of SamplePositions less than 1e-5 degrees apart
Below1e5(p, q) == p = q \/ {p, q} = {Origin, NearOrigin}

\* vehicle k of route r of the returned map has a fix in the previous snapshot
Matched(r, k) ==
    /\ r \in DOMAIN heap[allVehicles]
    /\ \E j \in DOMAIN heap[allVehicles][r] :
          heap[allVehicles][r][j].ID = heap[newRoutes][r][k].ID

\* that fix: the first vehicle of the route with its ID
PreviousFix(r, k) ==
    LET old == heap[allVehicles][r]
        first == CHOOSE j \in DOMAIN old :
                    /\ old[j].ID = heap[newRoutes][r][k].ID
                    /\ \A l \in 1..(j - 1) : old[l].ID # heap[newRoutes][r][k].ID
    IN old[first]

\* C21: a vehicle with a fix in the previous snapshot that is now less than
\* 1e-5 degrees from that fix has, after smoothing, the heading of that fix.
C21_StationaryKeepsHeading ==
    pc = "store" =>
        \A r \in DOMAIN heap[newRoutes] : \A k \in DOMAIN heap[newRoutes][r] :
            (Matched(r, k) /\ Below1e5(Position(PreviousFix(r, k)),
                                       Position(heap[newRoutes][r][k])))
                => heap[newRoutes][r][k].Direction = PreviousFix(r, k).Direction

\* a vehicle that had heading 90 at the origin is reported 8.5e-6 degrees
\* away, where the candidate bearing is 63, and keeps 90
C21_Witness ==
    /\ pc = "store"
    /\ "r1" \in DOMAIN heap[newRoutes]
    /\ Matched("r1", 1)
    /\ Position(PreviousFix("r1", 1)) = Origin
    /\ PreviousFix("r1", 1).Direction = 90
    /\ Position(heap[newRoutes]["r1"][1]) = NearOrigin
    /\ heap[newRoutes]["r1"][1].Direction = 90


\* Point{Lat: float64(v.Latitude), Lon: float64(v.Longitude)}
PointOf(v) == [Lat |-> v.Latitude, Lon |-> v.Longitude]

\* the candidate bearing of vehicle k of route r: from its previous fix to
\* its new position
Candidate(r, k) ==
    calculateBearing(PointOf(PreviousFix(r, k)), PointOf(heap[newRoutes][r][k]))

NorthByWest == <<Deg(15), Deg(-1)>>

\* C22: a vehicle with a fix in the previous snapshot that is now 1e-5
\* degrees or more from that fix has, after smoothing, the candidate
\* bearing when candidate and previous heading differ by more than 3
\* degrees either way, and the previous heading otherwise.
C22_AngularDeadZone ==
    pc = "store" =>
        \A r \in DOMAIN heap[newRoutes] : \A k \in DOMAIN heap[newRoutes][r] :
            (Matched(r, k) /\ ~Below1e5(Position(PreviousFix(r, k)),
                                        Position(heap[newRoutes][r][k])))
                => LET previous == PreviousFix(r, k).Direction
                       candidate == Candidate(r, k)
                   IN heap[newRoutes][r][k].Direction =
                         (IF candidate - previous > 3 \/ previous - candidate > 3
                          THEN candidate
                          ELSE previous)

\* one vehicle had heading 90 and moved with candidate bearing 93: it keeps
\* 90; another had heading 0 and moved with candidate bearing 180: it has 180
C22_Witness ==
    /\ pc = "store"
    /\ "r1" \in DOMAIN heap[newRoutes]
    /\ Len(heap[newRoutes]["r1"]) = 2
    /\ Matched("r1", 1)
    /\ Matched("r1", 2)
    /\ heap[newRoutes]["r1"][1].ID # heap[newRoutes]["r1"][2].ID
    /\ Position(PreviousFix("r1", 1)) = Origin
    /\ PreviousFix("r1", 1).Direction = 90
    /\ Position(heap[newRoutes]["r1"][1]) = NorthByWest
    /\ Candidate("r1", 1) = 93
    /\ heap[newRoutes]["r1"][1].Direction = 90
    /\ Position(PreviousFix("r1", 2)) = Origin
    /\ PreviousFix("r1", 2).Direction = 0
    /\ Position(heap[newRoutes]["r1"][2]) = West
    /\ Candidate("r1", 2) = 180
    /\ heap[newRoutes]["r1"][2].Direction = 180


\* C23: a vehicle of the returned map whose route is not in the previous
\* snapshot, or whose ID no vehicle of that route has there, has heading 0.
C23_UnmatchedVehicleHasDefaultHeading ==
    pc = "store" =>
        \A r \in DOMAIN heap[newRoutes] : \A k \in DOMAIN heap[newRoutes][r] :
            ~Matched(r, k) => heap[newRoutes][r][k].Direction = 0

\* the previous snapshot has one vehicle on the route, with heading 90; the
\* returned map has a second vehicle of another ID, elsewhere, with heading 0
C23_Witness ==
    /\ pc = "store"
    /\ "r1" \in DOMAIN heap[newRoutes] \cap DOMAIN heap[allVehicles]
    /\ Len(heap[allVehicles]["r1"]) = 1
    /\ heap[allVehicles]["r1"][1].Direction = 90
    /\ Len(heap[newRoutes]["r1"]) = 2
    /\ ~Matched("r1", 2)
    /\ Position(heap[newRoutes]["r1"][2]) # Position(heap[allVehicles]["r1"][1])
    /\ heap[newRoutes]["r1"][2].Direction = 0


\* C25: every vehicle of the stored snapshot has a heading from 0 to 359.
C25_HeadingInRange ==
    serving =>
        \A r \in DOMAIN heap[allVehicles] : \A k \in DOMAIN heap[allVehicles][r] :
            heap[allVehicles][r][k].Direction \in 0..359


\* C27: in the stored snapshot no route has two vehicles with the same ID.
C27_VehicleIDsUniquePerRoute ==
    serving =>
        \A r \in DOMAIN heap[allVehicles] :
            \A i, j \in DOMAIN heap[allVehicles][r] :
                i # j => heap[allVehicles][r][i].ID # heap[allVehicles][r][j].ID


\* the records of vehicle id on route r in a snapshot, and nothing else
Only(snapshot, r, id) ==
    IF r \in DOMAIN snapshot
    THEN [q \in {r} |-> SelectSeq(snapshot[r], LAMBDA v : v.ID = id)]
    ELSE NoRoutes

\* the place of entry k of a route among the entries with its ID
OwnIndex(vs, k) == Cardinality({i \in 1..k : vs[i].ID = vs[k].ID})

\* C26: the heading the smoother gives an entry of the map is the heading
\* it gives that entry when both snapshots hold the records of that
\* vehicle on that route and nothing else.  Two pairs of snapshots that
\* agree on a vehicle's own records have these reduced snapshots in common,
\* so they give the vehicle the same heading.
C26_HeadingFromOwnRecordsOnly ==
    [][Smooths =>
         \A r \in DOMAIN heap[newRoutes] : \A k \in DOMAIN heap[newRoutes][r] :
            LET id == heap[newRoutes][r][k].ID
                alone == calculateVehicleBearings(Only(heap[allVehicles], r, id),
                                                  Only(heap[newRoutes], r, id))
            IN heap'[newRoutes][r][k].Direction =
                   alone[r][OwnIndex(heap[newRoutes][r], k)].Direction]_vars

\* two vehicles of one route, both with a fix in the previous snapshot, have
\* been given different headings, other than the default
C26_Witness ==
    /\ pc = "store"
    /\ \E r \in DOMAIN heap[newRoutes] :
          /\ Len(heap[newRoutes][r]) = 2
          /\ heap[newRoutes][r][1].ID # heap[newRoutes][r][2].ID
          /\ Matched(r, 1)
          /\ Matched(r, 2)
          /\ heap[newRoutes][r][1].Direction # heap[newRoutes][r][2].Direction
          /\ heap[newRoutes][r][1].Direction # 0
          /\ heap[newRoutes][r][2].Direction # 0


(***************************************************************************)
(* Properties of the cache and its lock.                                   *)
(***************************************************************************)
\* the update loop is inside getTrip, asking for the read lock of mu
RequestsReadLock == pc = "blocked"

\* C31: the update loop never asks for the read lock of the cache while it
\* holds the write lock it took for a refresh.
C31_NoReadLockUnderWriteLock ==
    serving => ~(muWriter /\ RequestsReadLock)


\* C32: whenever the cached token is the token of an archive version, the
\* cache mapping is the one parsed from that version (looked at while the
\* update loop is not stuck on the lock).
C32_TokenMatchesMapping ==
    ~RequestsReadLock =>
        \A x \in DOMAIN Archives :
            cachedTripsFilename = Archives[x].disposition
                => routesToTrips = LoadRows(Archives[x].rows)


(***************************************************************************)
(* Further properties of the heading smoother.                             *)
(***************************************************************************)
\* C33: a vehicle with a fix in the previous snapshot that is now 1e-5
\* degrees or more from that fix has, after smoothing, a heading at most 3
\* from the candidate bearing of this cycle, in every cycle of a run.
C33_HeadingWithin3OfCandidate ==
    pc = "store" =>
        \A r \in DOMAIN heap[newRoutes] : \A k \in DOMAIN heap[newRoutes][r] :
            (Matched(r, k) /\ ~Below1e5(Position(PreviousFix(r, k)),
                                        Position(heap[newRoutes][r][k])))
                => heap[newRoutes][r][k].Direction - Candidate(r, k) \in -3..3

\* a vehicle with heading 90 moved with candidate bearing 92 and keeps 90:
\* heading and candidate differ, by 2
C33_Witness ==
    /\ pc = "store"
    /\ "r1" \in DOMAIN heap[newRoutes]
    /\ Matched("r1", 1)
    /\ PreviousFix("r1", 1).Direction = 90
    /\ Position(PreviousFix("r1", 1)) = Origin
    /\ Position(heap[newRoutes]["r1"][1]) = <<Deg(20), Deg(-1)>>
    /\ Candidate("r1", 1) = 92
    /\ heap[newRoutes]["r1"][1].Direction = 90


\* vehicle id is listed under route r of a snapshot
OnRoute(snapshot, r, id) ==
    /\ r \in DOMAIN snapshot
    /\ \E j \in DOMAIN snapshot[r] : snapshot[r][j].ID = id

\* C34: when the update loop replaces the stored snapshot, every vehicle of
\* the new snapshot that the replaced snapshot does not list under the same
\* route has heading 0.
C34_HeadingOnlyFromPrecedingSnapshot ==
    [][Publishes =>
         \A r \in DOMAIN heap'[allVehicles'] : \A k \in DOMAIN heap'[allVehicles'][r] :
            ~OnRoute(heap[allVehicles], r, heap'[allVehicles'][r][k].ID)
                => heap'[allVehicles'][r][k].Direction = 0]_vars

\* the stored snapshot lists a vehicle under one route with a heading other
\* than 0, and the map about to replace it lists the vehicle under another
\* route, elsewhere, with heading 0
C34_Witness ==
    /\ pc = "store"
    /\ \E r, q \in DOMAIN heap[allVehicles] \cup DOMAIN heap[newRoutes] :
          /\ r # q
          /\ r \in DOMAIN heap[allVehicles]
          /\ q \in DOMAIN heap[newRoutes]
          /\ \E j \in DOMAIN heap[allVehicles][r], k \in DOMAIN heap[newRoutes][q] :
                /\ heap[allVehicles][r][j].ID = heap[newRoutes][q][k].ID
                /\ heap[allVehicles][r][j].Direction # 0
                /\ Position(heap[allVehicles][r][j]) # Position(heap[newRoutes][q][k])
                /\ ~OnRoute(heap[allVehicles], q, heap[newRoutes][q][k].ID)
                /\ heap[newRoutes][q][k].Direction = 0


(***************************************************************************)
(* Further properties of the handlers and of main.                         *)
(***************************************************************************)
\* C35: for each subscriber, clientLastUpdate never exceeds the stored
\* timestamp, the timestamps of the events sent to it increase strictly in
\* the order sent, and no step lowers clientLastUpdate.
C35_SubscriberTimestampsOrdered ==
    /\ [](\A s \in Subscribers :
            /\ clientLastUpdate[s] <= lastUpdateTimestamp
            /\ \A i, j \in DOMAIN sentTs[s] : i < j => sentTs[s][i] < sentTs[s][j])
    /\ [][\A s \in Subscribers : clientLastUpdate'[s] >= clientLastUpdate[s]]_vars

\* a subscriber has been sent the events of two timestamps and is level
\* with the stored timestamp
C35_Witness ==
    \E s \in Subscribers :
        /\ Len(sentTs[s]) = 2
        /\ sentTs[s][1] # sentTs[s][2]
        /\ clientLastUpdate[s] = sentTs[s][2]
        /\ clientLastUpdate[s] = lastUpdateTimestamp


\* allVehicles holds a map: a Load returns it, and the type assertion holds
SnapshotStored == allVehicles # 0 /\ allVehicles \in DOMAIN heap

\* C36: whenever a handler is running, and whenever the update loop is
\* running, the snapshot store holds a map: no Load finds it unset.
C36_NoLoadOfUnsetSnapshot ==
    /\ (\E s \in Subscribers : spc[s] \notin {"absent", "exited"}) => SnapshotStored
    /\ serving => SnapshotStored

\* a handler is about to load the snapshot while the update loop is about
\* to load it as the previous snapshot
C36_Witness ==
    /\ \E s \in Subscribers : spc[s] = "load"
    /\ serving
    /\ pc = "getRoutes"
    /\ gi > Len(vehicles)
    /\ SnapshotStored


(***************************************************************************)
(* Grouping by route.                                                      *)
(***************************************************************************)
\* the vehicles of the cycle's feed on route r, in feed order
FeedOfRoute(r) == SelectSeq(vehicles, LAMBDA v : v.route = r)

\* getRoutes has gone through all the vehicles of the feed
GetRoutesDone == pc \in {"getRoutes", "store"} /\ gi > Len(vehicles)

\* C37: in the map getRoutes has built from a feed, the route keys are the
\* route IDs of the feed's vehicles, and the vehicles under a key are the
\* feed's vehicles of that route, once each, in feed order: no key is
\* without a vehicle and no vehicle is under another key.
C37_GroupedByRouteInFeedOrder ==
    GetRoutesDone =>
        /\ DOMAIN heap[newRoutes] = {vehicles[i].route : i \in DOMAIN vehicles}
        /\ \A r \in DOMAIN heap[newRoutes] :
              /\ Len(heap[newRoutes][r]) > 0
              /\ Len(heap[newRoutes][r]) = Len(FeedOfRoute(r))
              /\ \A k \in DOMAIN heap[newRoutes][r] :
                    /\ heap[newRoutes][r][k].ID = FeedOfRoute(r)[k].id
                    /\ heap[newRoutes][r][k].Latitude = FeedOfRoute(r)[k].lat
                    /\ heap[newRoutes][r][k].Longitude = FeedOfRoute(r)[k].lon

\* getRoutes has built the map of a feed with two different vehicles of one
\* route at two positions
C37_Witness ==
    /\ GetRoutesDone
    /\ Len(vehicles) = 2
    /\ vehicles[1].route = vehicles[2].route
    /\ vehicles[1].id # vehicles[2].id
    /\ vehicles[1].lat # vehicles[2].lat
    /\ Len(heap[newRoutes][vehicles[1].route]) = 2

====
